---- MODULE Spec2Model ----
(***************************************************************************)
(* Meal Planner client: the API base resolver and the auth guard           *)
(* (auth.js) and the notification poller (notifications.js), as a state    *)
(* machine over the browser's single event loop.  One action is one        *)
(* synchronous run of code between two suspension points (await, network   *)
(* response, timer).                                                       *)
(***************************************************************************)
EXTENDS Integers, Sequences, FiniteSets, TLC

\* ------------------------------------------------------------------ bounds
MaxWaiters == 2      \* getApiBase() calls made by page scripts
MaxCycles == 1       \* check cycles in flight at once
MaxOverlap == 2      \* check cycles in flight at once where they overlap
MaxUnread == 2       \* messages that arrive while the page is open
MaxTimers == 2       \* setInterval calls of one page

\* ------------------------------------------------------------ page location
\* A base URL `${protocol}//${host}:${port}/api` is the tuple
\* <<protocol, host, port>>; the JavaScript null is the empty tuple.
NULL == <<>>

\* window.location of the page that loaded auth.js: opened from disk, served
\* by the dev backend itself, or served by another http origin.
Locations ==
    { [protocol |-> "file:", host |-> "",            port |-> 0],
      [protocol |-> "http:", host |-> "127.0.0.1",   port |-> 8900],
      [protocol |-> "http:", host |-> "app.example", port |-> 80] }

ports == <<8900, 8765, 8000>>
hosts == <<"127.0.0.1", "localhost">>

Includes(seq, x) == \E i \in 1..Len(seq) : seq[i] = x

PushUnique(seq, x) == IF Includes(seq, x) THEN seq ELSE Append(seq, x)

\* for (const h of hosts) for (const p of ports) { ... push if not included }
RECURSIVE AddDevHosts(_, _, _, _)
AddDevHosts(seq, proto, hi, pi) ==
    IF hi > Len(hosts) THEN seq
    ELSE IF pi > Len(ports) THEN AddDevHosts(seq, proto, hi + 1, 1)
    ELSE AddDevHosts(PushUnique(seq, <<proto, hosts[hi], ports[pi]>>),
                     proto, hi, pi + 1)

IsHttp(proto) == proto \in {"http:", "https:"}

\* The candidate list of detectApiBase, in the order it is built.
Candidates(loc) ==
    LET first == IF IsHttp(loc.protocol)
                 THEN << <<loc.protocol, loc.host, loc.port>> >>
                 ELSE << >>
    IN  AddDevHosts(first, loc.protocol, 1, 1)

CandidateSet(loc) == { Candidates(loc)[i] : i \in 1..Len(Candidates(loc)) }

Fallback(loc) == <<loc.protocol, "127.0.0.1", 8900>>

\* ------------------------------------------------------- poller's world
\* The polled user, and the empty id that start/update reject.
UserIds == {"", "u1"}

\* Family ids and member ids, each list in ascending string order. The pair
\* <<f, m>> stands for the string `${f}:${m}`.
FamilyIds == <<"F1", "F2">>
MemberIds == <<"U1", "U2">>
Self == "U1"           \* the polled user's id as a family member

AllPairs == { <<FamilyIds[i], MemberIds[j]>> : i \in 1..Len(FamilyIds),
                                               j \in 1..Len(MemberIds) }

\* Unread counts the backend can hold when the page loads.
UnreadValues == <<0, 1, 99, 150>>

Elements == {"messageLink", "manageFamilyLink", "userProfileBtn"}

VARIABLES
    \* ---- auth.js: API base resolver
    location,          \* window.location (protocol, host, port)
    API_BASE,          \* let API_BASE
    winApiBase,        \* window.API_BASE
    apiReady,          \* window.API_READY: "pending" | "resolved"
    resolveApiReady,   \* _resolveApiReady is non-null
    pending,           \* candidates whose fetchWithTimeout promise is unsettled
    rejections,        \* Promise.any: number of rejected inputs
    anyState,          \* Promise.any: <<"pending">>, <<"fulfilled", base>>, <<"rejected">>
    detectPc,          \* detectApiBase: "await" | "done"
    via,               \* which branch of detectApiBase called setApiBase
    firstOk,           \* history: the first candidate whose probe finished successfully
    waiter,            \* getApiBase() calls of page scripts: [pc, ret, waited]
    \* ---- auth.js: auth guard
    sessionStorage,    \* the session keys that are present
    auth,              \* the page's initAuth call
    href,              \* window.location.href: "page" | "index.html"
    \* ---- notifications.js
    notificationCheckInterval,  \* the stored timer handle, 0 for null
    timers,            \* the interval timers that are armed
    nextTimerId,       \* the handle the next setInterval returns
    badgeStyles,       \* number of <style id=notification-badge-styles> elements
    cycle,             \* updateAllNotifications invocations in flight
    clearProc,         \* the clearNotification invocation in flight
    srvUnread,         \* backend: unread messages of the user
    membership,        \* backend: the (family, member) pairs
    lastViewed,        \* localStorage family_members_{userId}: <<>> or <<key>>
    dom,               \* the three badge hosts: [badges, cls, text]
    headerPresent,     \* the badge hosts are in the document
    \* ---- user-header.js
    header,            \* the header fragment, its listeners and the dropdown
    localStore,        \* the localStorage session keys that are present
    \* ---- FamilyCode component
    view               \* its inputs, its React state and its pending callbacks

resolverVars == <<location, API_BASE, winApiBase, apiReady, resolveApiReady,
                  pending, rejections, anyState, detectPc, via, firstOk>>

authVars == <<sessionStorage, auth, href>>

pollVars == <<notificationCheckInterval, timers, nextTimerId, badgeStyles, cycle,
              clearProc, srvUnread, membership, lastViewed, dom, headerPresent>>

uiVars == <<header, localStore, view>>

vars == <<resolverVars, waiter, authVars, pollVars, uiVars>>

Waiters == 1..MaxWaiters

InitResolver ==
    /\ location \in Locations
    /\ API_BASE = NULL
    /\ winApiBase = NULL
    /\ apiReady = "pending"
    /\ resolveApiReady = TRUE
    /\ pending = CandidateSet(location)
    /\ rejections = 0
    /\ anyState = <<"pending">>
    /\ detectPc = "await"
    /\ via = "none"
    /\ firstOk = NULL

InitWaiters == waiter = [w \in Waiters |-> [pc |-> "idle", ret |-> NULL, waited |-> FALSE]]

\* ------------------------------------------------------------- setApiBase
\* Mutant: the readiness promise is not resolved.
SetApiBaseNoSignal(base) ==
    /\ API_BASE' = base
    /\ winApiBase' = base
    /\ UNCHANGED <<apiReady, resolveApiReady>>

SetApiBase(base) ==
    /\ API_BASE' = base
    /\ winApiBase' = base
    /\ IF resolveApiReady
       THEN apiReady' = "resolved" /\ resolveApiReady' = FALSE
       ELSE UNCHANGED <<apiReady, resolveApiReady>>

\* ------------------------------------------------------------ Promise.any
\* Mutant: Promise.race, the first probe to settle decides, also by failing.
PromiseRaceReject(st, nRejected, nInputs) ==
    IF st[1] = "pending" THEN <<"rejected">> ELSE st

\* An input promise fulfils: the first fulfilment settles Promise.any.
PromiseAnyFulfil(st, base) == IF st[1] = "pending" THEN <<"fulfilled", base>> ELSE st

\* An input promise rejects: Promise.any rejects once all inputs have.
PromiseAnyReject(st, nRejected, nInputs) ==
    IF st[1] = "pending" /\ nRejected = nInputs THEN <<"rejected">> ELSE st

\* --------------------------------------------------------- fetchWithTimeout
\* /health answered with r.ok before the timer: clearTimeout, resolve(base).
\* fetch only ever answers for an http(s) URL.
ProbeOk(c) ==
    /\ c \in pending
    /\ IsHttp(c[1])
    /\ pending' = pending \ {c}
    /\ anyState' = PromiseAnyFulfil(anyState, c)
    /\ firstOk' = IF firstOk = NULL THEN c ELSE firstOk
    /\ UNCHANGED <<location, API_BASE, winApiBase, apiReady, resolveApiReady,
                   rejections, detectPc, via>>
    /\ UNCHANGED <<waiter, authVars, pollVars, uiVars>>

\* The probe of c rejects: one more rejected input of Promise.any.
ProbeSettleRejected(c) ==
    /\ c \in pending
    /\ pending' = pending \ {c}
    /\ rejections' = rejections + 1
    /\ anyState' = PromiseAnyReject(anyState, rejections + 1,
                                    Len(Candidates(location)))
    /\ UNCHANGED <<location, API_BASE, winApiBase, apiReady, resolveApiReady,
                   detectPc, via, firstOk>>
    /\ UNCHANGED <<waiter, authVars, pollVars, uiVars>>

\* /health answered with a non-2xx status: reject(new Error('bad status')).
ProbeBadStatus(c) == ProbeSettleRejected(c)

\* fetch rejected (connection refused, DNS, CORS): .catch rejects.
ProbeNetworkError(c) == ProbeSettleRejected(c)

\* No answer within 2500 ms: the timer aborts the fetch, which rejects.
ProbeTimeout(c) == ProbeSettleRejected(c)

\* ------------------------------------------------------------ detectApiBase
\* The continuation after `await Promise.any(...)`.
DetectApiBaseResume ==
    /\ detectPc = "await"
    /\ anyState[1] # "pending"
    /\ detectPc' = "done"
    /\ IF anyState[1] = "fulfilled"
       THEN SetApiBase(anyState[2]) /\ via' = "winner"
       ELSE SetApiBase(Fallback(location)) /\ via' = "fallback"
    /\ UNCHANGED <<location, pending, rejections, anyState, firstOk>>
    /\ UNCHANGED <<waiter, authVars, pollVars, uiVars>>

\* --------------------------------------------------------------- getApiBase
\* A page script calls getApiBase(): runs up to the await, or to the return.
GetApiBaseCall(w) ==
    /\ waiter[w].pc = "idle"
    /\ waiter' = [waiter EXCEPT ![w] =
                    IF API_BASE = NULL
                    THEN [pc |-> "waiting", ret |-> NULL, waited |-> TRUE]
                    ELSE [pc |-> "returned", ret |-> API_BASE, waited |-> FALSE]]
    /\ UNCHANGED <<resolverVars, authVars, pollVars, uiVars>>

\* window.API_READY is resolved: the call continues with `return API_BASE`.
GetApiBaseResume(w) ==
    /\ waiter[w].pc = "waiting"
    /\ apiReady = "resolved"
    /\ waiter' = [waiter EXCEPT ![w].pc = "returned", ![w].ret = API_BASE]
    /\ UNCHANGED <<resolverVars, authVars, pollVars, uiVars>>

\* =============================================================== auth guard
SessionKeys == {"currentUser", "userFamilies", "selectedFamily", "mealCodeData"}

\* function getTabKey(key) { return key; }
getTabKey(key) == key

IdleAuth == [pc |-> "idle", kind |-> "none", onSuccess |-> FALSE, onError |-> FALSE,
             base |-> NULL, result |-> "none", why |-> "none", outcome |-> "none",
             found |-> {}, waited |-> FALSE]

InitAuthGuard ==
    /\ auth = IdleAuth
    /\ href = "page"

\* Mutant: the derived cache mealCodeData is left behind.
ClearUserDataThree(store) ==
    store \ { getTabKey("currentUser"), getTabKey("userFamilies"),
              getTabKey("selectedFamily") }

\* clearUserData(): four removeItem calls.
ClearUserData(store) ==
    store \ { getTabKey("currentUser"), getTabKey("userFamilies"),
              getTabKey("selectedFamily"), getTabKey("mealCodeData") }

\* checkUserAuth after its readiness guard: read the cached session (found
\* is history: the session keys present at that moment), then
\* either return null or call getApiBase(), which returns API_BASE at once
\* (API_BASE is non-null here, the guard of line 85 has just passed).
CheckUserAuthRead(a) ==
    IF getTabKey("currentUser") \notin sessionStorage
    THEN [a EXCEPT !.pc = "return", !.result = "null", !.why = "nosession",
                   !.found = sessionStorage]
    ELSE [a EXCEPT !.pc = "getBase", !.base = API_BASE, !.found = sessionStorage]

\* Mutant: no readiness guard, and the base is read as it is.
CheckUserAuthEnterNoGuard(a) == CheckUserAuthRead(a)

\* checkUserAuth from its first line up to its first suspension (waited is
\* history: the call had to await API_READY).
CheckUserAuthEnter(a) ==
    IF API_BASE = NULL THEN [a EXCEPT !.pc = "checkWait", !.waited = TRUE]
    ELSE CheckUserAuthRead(a)

\* A page script calls initAuth(onSuccess, onError) or checkUserAuth().
AuthCall(kind, onS, onE) ==
    /\ auth.pc = "idle"
    /\ LET a == [auth EXCEPT !.kind = kind, !.onSuccess = onS, !.onError = onE]
       IN  auth' = IF kind = "initAuth" /\ API_BASE = NULL
                   THEN [a EXCEPT !.pc = "initWait", !.waited = TRUE]
                   ELSE CheckUserAuthEnter(a)
    /\ UNCHANGED <<sessionStorage, href>>
    /\ UNCHANGED <<resolverVars, waiter, pollVars, uiVars>>

\* initAuth resumes after `await window.API_READY` and calls checkUserAuth.
InitAuthResume ==
    /\ auth.pc = "initWait"
    /\ apiReady = "resolved"
    /\ auth' = CheckUserAuthEnter(auth)
    /\ UNCHANGED <<sessionStorage, href>>
    /\ UNCHANGED <<resolverVars, waiter, pollVars, uiVars>>

\* checkUserAuth resumes after its own `await window.API_READY`.
CheckUserAuthResume ==
    /\ auth.pc = "checkWait"
    /\ apiReady = "resolved"
    /\ auth' = CheckUserAuthRead(auth)
    /\ UNCHANGED <<sessionStorage, href>>
    /\ UNCHANGED <<resolverVars, waiter, pollVars, uiVars>>

\* checkUserAuth resumes after `await getApiBase()`: GET {base}/user/{id}.
CheckUserAuthFetch ==
    /\ auth.pc = "getBase"
    /\ auth' = [auth EXCEPT !.pc = "lookup"]
    /\ UNCHANGED <<sessionStorage, href>>
    /\ UNCHANGED <<resolverVars, waiter, pollVars, uiVars>>

\* Mutant: the server's answer is merged into the cached session, which is
\* stored again, and the merged object is returned.
LookupOkMerged ==
    /\ auth.pc = "lookup"
    /\ auth' = [auth EXCEPT !.pc = "return", !.result = "merged", !.why = "ok"]
    /\ sessionStorage' = sessionStorage \cup {getTabKey("currentUser")}
    /\ UNCHANGED href
    /\ UNCHANGED <<resolverVars, waiter, pollVars, uiVars>>

\* The lookup answers with a success status: return user.
LookupOk ==
    /\ auth.pc = "lookup"
    /\ auth' = [auth EXCEPT !.pc = "return", !.result = "user", !.why = "ok"]
    /\ UNCHANGED <<sessionStorage, href>>
    /\ UNCHANGED <<resolverVars, waiter, pollVars, uiVars>>

\* The lookup answers with a non-success status: clearUserData(); return null.
LookupBadStatus ==
    /\ auth.pc = "lookup"
    /\ sessionStorage' = ClearUserData(sessionStorage)
    /\ auth' = [auth EXCEPT !.pc = "return", !.result = "null", !.why = "badstatus"]
    /\ UNCHANGED href
    /\ UNCHANGED <<resolverVars, waiter, pollVars, uiVars>>

\* fetch throws: the catch block runs clearUserData(); return null.
LookupNetworkError ==
    /\ auth.pc = "lookup"
    /\ sessionStorage' = ClearUserData(sessionStorage)
    /\ auth' = [auth EXCEPT !.pc = "return", !.result = "null", !.why = "neterr"]
    /\ UNCHANGED href
    /\ UNCHANGED <<resolverVars, waiter, pollVars, uiVars>>

\* Mutant: redirectToLogin() is not in an else branch.
AuthFinishNoElse ==
    /\ auth.pc = "return"
    /\ IF auth.kind = "checkUserAuth"
       THEN /\ auth' = [auth EXCEPT !.pc = "done", !.outcome = "returned"]
            /\ UNCHANGED <<sessionStorage, href>>
       ELSE IF auth.result = "user"
       THEN /\ auth' = [auth EXCEPT !.pc = "done",
                           !.outcome = IF auth.onSuccess THEN "onSuccess" ELSE "nothing"]
            /\ UNCHANGED <<sessionStorage, href>>
       ELSE /\ auth' = [auth EXCEPT !.pc = "done",
                           !.outcome = IF auth.onError THEN "onError" ELSE "redirect"]
            /\ sessionStorage' = ClearUserData(sessionStorage)
            /\ href' = "index.html"
    /\ UNCHANGED <<resolverVars, waiter, pollVars, uiVars>>

\* checkUserAuth has returned: its caller continues. initAuth picks one of
\* onSuccess(user), onError() and redirectToLogin().
AuthFinish ==
    /\ auth.pc = "return"
    /\ IF auth.kind = "checkUserAuth"
       THEN /\ auth' = [auth EXCEPT !.pc = "done", !.outcome = "returned"]
            /\ UNCHANGED <<sessionStorage, href>>
       ELSE IF auth.result = "user"
       THEN /\ auth' = [auth EXCEPT !.pc = "done",
                           !.outcome = IF auth.onSuccess THEN "onSuccess" ELSE "nothing"]
            /\ UNCHANGED <<sessionStorage, href>>
       ELSE IF auth.onError
       THEN /\ auth' = [auth EXCEPT !.pc = "done", !.outcome = "onError"]
            /\ UNCHANGED <<sessionStorage, href>>
       ELSE /\ auth' = [auth EXCEPT !.pc = "done", !.outcome = "redirect"]
            /\ sessionStorage' = ClearUserData(sessionStorage)
            /\ href' = "index.html"
    /\ UNCHANGED <<resolverVars, waiter, pollVars, uiVars>>

NextAuth ==
    \/ \E onS \in BOOLEAN, onE \in BOOLEAN : AuthCall("initAuth", onS, onE)
    \/ AuthCall("checkUserAuth", FALSE, FALSE)
    \/ InitAuthResume
    \/ CheckUserAuthResume
    \/ CheckUserAuthFetch
    \/ LookupOk
    \/ LookupBadStatus
    \/ LookupNetworkError
    \/ AuthFinish

\* ======================================================= notification poller
\* ---- strings of the membership key
Rank(seq, x) == CHOOSE i \in 1..Len(seq) : seq[i] = x

\* `${f1}:${m1}` < `${f2}:${m2}` in the code-unit order Array.prototype.sort uses.
PairLess(p, q) ==
    \/ Rank(FamilyIds, p[1]) < Rank(FamilyIds, q[1])
    \/ p[1] = q[1] /\ Rank(MemberIds, p[2]) < Rank(MemberIds, q[2])

RECURSIVE Insert(_, _)
Insert(sorted, p) ==
    IF sorted = <<>> THEN <<p>>
    ELSE IF PairLess(p, Head(sorted)) THEN <<p>> \o sorted
    ELSE <<Head(sorted)>> \o Insert(Tail(sorted), p)

RECURSIVE Sort(_)
Sort(seq) == IF seq = <<>> THEN <<>> ELSE Insert(Sort(Tail(seq)), Head(seq))

\* Mutant: the pieces are joined in the order they were collected.
MembersKeyUnsorted(allCurrentMembers) == allCurrentMembers

\* .map(m => `${m.family_id}:${m.user_id}`).sort().join(','): the key string is
\* the sequence of its comma-separated pieces, the empty string is <<>>.
MembersKey(allCurrentMembers) == Sort(allCurrentMembers)

EmptyString == <<>>

Range(seq) == { seq[i] : i \in 1..Len(seq) }

\* new Set(key.split(',')): ''.split(',') is [''], one empty piece.
SplitSet(key) == IF key = <<>> THEN {EmptyString} ELSE Range(key)

\* The loop of lines 126-134 over currentMemberIds.
CountNew(lastKey, currentKey) == Cardinality(SplitSet(currentKey) \ SplitSet(lastKey))

\* localStorage items: <<>> is null (no item), <<key>> an item holding key.
NoItem == <<>>
Falsy(item) == item = NoItem \/ item[1] = <<>>

\* ---- backend
RECURSIVE SelectSeq2(_, _)
SelectSeq2(seq, S) ==
    IF seq = <<>> THEN <<>>
    ELSE (IF Head(seq) \in S THEN <<Head(seq)>> ELSE <<>>) \o SelectSeq2(Tail(seq), S)

\* The families the user is a member of.
FamilySet(ms) == { f \in Range(FamilyIds) : <<f, Self>> \in ms }

\* GET /user/{id}/families: those families as a JSON array, in an order
\* the backend chooses.
FamilyLists(ms) ==
    { fs \in UNION { [1..n -> FamilySet(ms)] : n \in {Cardinality(FamilySet(ms))} } :
        Range(fs) = FamilySet(ms) }

\* GET /family/{f}/members, mapped to {family_id, user_id} pairs.
MembersOf(ms, f) ==
    LET who == SelectSeq2(MemberIds, { m \in Range(MemberIds) : <<f, m>> \in ms })
    IN  [i \in 1..Len(who) |-> <<f, who[i]>>]

\* ---- badge text
DigitChars == <<"0", "1", "2", "3", "4", "5", "6", "7", "8", "9">>

\* String(count) of a non-negative integer.
RECURSIVE ToDecimal(_)
ToDecimal(n) ==
    IF n < 10 THEN <<DigitChars[n + 1]>>
    ELSE ToDecimal(n \div 10) \o <<DigitChars[(n % 10) + 1]>>

\* badge.textContent = count > 99 ? '99+' : count
BadgeText(count) == IF count > 99 THEN <<"9", "9", "+">> ELSE ToDecimal(count)

\* A badge host: the texts of its .notification-badge children in document
\* order, and whether it carries the class has-notification.
NoBadge == [badges |-> <<>>, cls |-> FALSE]

\* Mutant: the existing badge is not removed before a new one is attached.
UpdateBadgeKeepOld(el, count) ==
    IF count > 0
    THEN [badges |-> Append(el.badges, BadgeText(count)), cls |-> TRUE]
    ELSE [badges |-> el.badges, cls |-> FALSE]

\* updateBadge(element, count) on an element that exists.
UpdateBadge(el, count) ==
    LET left == IF el.badges # <<>> THEN Tail(el.badges) ELSE <<>>
    IN  IF count > 0
        THEN [badges |-> Append(left, BadgeText(count)), cls |-> TRUE]
        ELSE [badges |-> left, cls |-> FALSE]

\* ---- check cycles
\* cycle is the list of updateAllNotifications invocations in flight, oldest
\* first. One entry holds the locals of checkUnreadMessages (msg, msgBase,
\* unread) and of checkNewMembers (mem, memBase, todo, collected, newMembers);
\* origin, stale, msgHow and how (the return statement taken by each
\* sub-check), seen (the stored key that was read) and overtaken (a cycle
\* started later has rendered already) are history.
NewCycle(origin) ==
    [origin |-> origin, stale |-> FALSE,
     msg |-> "wait", msgBase |-> API_BASE, unread |-> 0, msgHow |-> "none",
     mem |-> "families", memBase |-> API_BASE, todo |-> <<>>, collected |-> <<>>,
     newMembers |-> 0, how |-> "none", seen |-> NoItem, overtaken |-> FALSE]

Cycles == 1..Len(cycle)

RemoveAt(seq, i) == SubSeq(seq, 1, i - 1) \o SubSeq(seq, i + 1, Len(seq))

\* updateAllNotifications(userId) up to its await: checkUnreadMessages and
\* checkNewMembers each build their first request from API_BASE and suspend.
BeginCycle(origin) ==
    /\ Len(cycle) < MaxCycles
    /\ cycle' = Append(cycle, NewCycle(origin))

InitPoller ==
    /\ notificationCheckInterval = 0
    /\ timers = {}
    /\ nextTimerId = 1
    /\ badgeStyles = 0
    /\ cycle = <<>>
    /\ clearProc = [pc |-> "idle", base |-> NULL, todo |-> <<>>, collected |-> <<>>]
    /\ lastViewed = NoItem
    /\ dom = [e \in Elements |-> NoBadge]

\* NotificationSystem.update(userId): one check cycle on demand, with at
\* most cap cycles in flight.
UpdateAllNotificationsUpTo(userId, cap) ==
    /\ IF userId = "" THEN UNCHANGED cycle
       ELSE Len(cycle) < cap /\ cycle' = Append(cycle, NewCycle("check"))
    /\ UNCHANGED <<notificationCheckInterval, timers, nextTimerId, badgeStyles,
                   clearProc, srvUnread, membership, lastViewed, dom, headerPresent>>
    /\ UNCHANGED <<resolverVars, waiter, authVars, uiVars>>

UpdateAllNotificationsCall(userId) == UpdateAllNotificationsUpTo(userId, MaxCycles)

\* Mutant: a new interval is armed without cancelling the stored one.
ArmIntervalNoClear(armed, handle, id) == armed \cup {id}

\* Lines 188-194: clearInterval(handle) if one is stored, then setInterval.
ArmInterval(armed, handle, id) ==
    (IF handle # 0 THEN armed \ {handle} ELSE armed) \cup {id}

\* NotificationSystem.start(userId)
StartNotificationCheck(userId) ==
    /\ IF userId = ""
       THEN UNCHANGED <<notificationCheckInterval, timers, nextTimerId, badgeStyles,
                        cycle>>
       ELSE /\ nextTimerId <= MaxTimers
            /\ badgeStyles' = IF badgeStyles = 0 THEN 1 ELSE badgeStyles
            /\ BeginCycle("check")
            /\ timers' = ArmInterval(timers, notificationCheckInterval, nextTimerId)
            /\ notificationCheckInterval' = nextTimerId
            /\ nextTimerId' = nextTimerId + 1
    /\ UNCHANGED <<clearProc, srvUnread, membership, lastViewed, dom, headerPresent>>
    /\ UNCHANGED <<resolverVars, waiter, authVars, uiVars>>

\* Mutant: the handle is forgotten, the interval is not cancelled.
StopNotificationCheckNoCancel ==
    /\ notificationCheckInterval' = 0
    /\ UNCHANGED <<timers, nextTimerId, badgeStyles, cycle, clearProc, srvUnread,
                   membership, lastViewed, dom, headerPresent>>
    /\ UNCHANGED <<resolverVars, waiter, authVars, uiVars>>

\* NotificationSystem.stop()
StopNotificationCheck ==
    /\ IF notificationCheckInterval # 0
       THEN /\ timers' = timers \ {notificationCheckInterval}
            /\ notificationCheckInterval' = 0
       ELSE UNCHANGED <<timers, notificationCheckInterval>>
    /\ UNCHANGED <<nextTimerId, badgeStyles, cycle, clearProc, srvUnread, membership,
                   lastViewed, dom, headerPresent>>
    /\ UNCHANGED <<resolverVars, waiter, authVars, uiVars>>

\* An armed interval timer fires: updateAllNotifications(userId).
TimerTick(id) ==
    /\ id \in timers
    /\ BeginCycle("check")
    /\ UNCHANGED <<notificationCheckInterval, timers, nextTimerId, badgeStyles,
                   clearProc, srvUnread, membership, lastViewed, dom, headerPresent>>
    /\ UNCHANGED <<resolverVars, waiter, authVars, uiVars>>

\* ---- checkUnreadMessages
cycleFrame == UNCHANGED <<notificationCheckInterval, timers, nextTimerId, badgeStyles,
                          clearProc, srvUnread, membership, headerPresent>>

\* The unread-count request answers ok: return data.unread_count || 0.
UnreadOk(i) ==
    /\ cycle[i].msg = "wait"
    /\ cycle[i].msgBase # NULL
    /\ cycle' = [cycle EXCEPT ![i].msg = "done", ![i].unread = srvUnread,
                              ![i].msgHow = "ok"]
    /\ cycleFrame /\ UNCHANGED <<lastViewed, dom>>
    /\ UNCHANGED <<resolverVars, waiter, authVars, uiVars>>

\* The answer is not ok: fall through to `return 0`.
UnreadBadStatus(i) ==
    /\ cycle[i].msg = "wait"
    /\ cycle' = [cycle EXCEPT ![i].msg = "done", ![i].unread = 0,
                              ![i].msgHow = "failed"]
    /\ cycleFrame /\ UNCHANGED <<lastViewed, dom>>
    /\ UNCHANGED <<resolverVars, waiter, authVars, uiVars>>

\* Mutant: no try/catch, the rejection reaches Promise.all and ends
\* updateAllNotifications before it renders.
UnreadNetworkErrorUncaught(i) ==
    /\ cycle[i].msg = "wait"
    /\ cycle' = RemoveAt(cycle, i)
    /\ cycleFrame /\ UNCHANGED <<lastViewed, dom>>
    /\ UNCHANGED <<resolverVars, waiter, authVars, uiVars>>

\* fetch throws: the catch block logs, then `return 0`.
UnreadNetworkError(i) ==
    /\ cycle[i].msg = "wait"
    /\ cycle' = [cycle EXCEPT ![i].msg = "done", ![i].unread = 0,
                              ![i].msgHow = "failed"]
    /\ cycleFrame /\ UNCHANGED <<lastViewed, dom>>
    /\ UNCHANGED <<resolverVars, waiter, authVars, uiVars>>

\* ---- checkNewMembers
MemberReturn(c, n, how) ==
    [c EXCEPT !.mem = "done", !.memBase = NULL, !.todo = <<>>,
              !.newMembers = n, !.how = how]

\* The families request answers ok: return 0 on an empty list, else request
\* the members of the first family.
FamiliesOk(i) ==
    /\ cycle[i].mem = "families"
    /\ cycle[i].memBase # NULL
    /\ \E families \in FamilyLists(membership) :
           IF families = <<>>
           THEN cycle' = [cycle EXCEPT ![i] = MemberReturn(@, 0, "nofamilies")]
           ELSE cycle' = [cycle EXCEPT ![i].mem = "members", ![i].todo = families,
                                       ![i].memBase = API_BASE]
    /\ cycleFrame /\ UNCHANGED <<lastViewed, dom>>
    /\ UNCHANGED <<resolverVars, waiter, authVars, uiVars>>

\* if (!familiesResponse.ok) return 0;
FamiliesBadStatus(i) ==
    /\ cycle[i].mem = "families"
    /\ cycle' = [cycle EXCEPT ![i] = MemberReturn(@, 0, "failed")]
    /\ cycleFrame /\ UNCHANGED <<lastViewed, dom>>
    /\ UNCHANGED <<resolverVars, waiter, authVars, uiVars>>

\* fetch throws: catch, then `return 0`.
FamiliesNetworkError(i) ==
    /\ cycle[i].mem = "families"
    /\ cycle' = [cycle EXCEPT ![i] = MemberReturn(@, 0, "failed")]
    /\ cycleFrame /\ UNCHANGED <<lastViewed, dom>>
    /\ UNCHANGED <<resolverVars, waiter, authVars, uiVars>>

\* Mutant: every check stores the key it has built.
MembersAdvanceRebase(i, collected) ==
    LET c == cycle[i]
        rest == Tail(c.todo)
        key == MembersKey(collected)
    IN  IF rest # <<>>
        THEN /\ cycle' = [cycle EXCEPT ![i].todo = rest, ![i].collected = collected,
                                       ![i].memBase = API_BASE]
             /\ UNCHANGED lastViewed
        ELSE /\ lastViewed' = <<key>>
             /\ cycle' = [cycle EXCEPT ![i] =
                            [MemberReturn(c, IF Falsy(lastViewed) THEN 0
                                             ELSE CountNew(lastViewed[1], key),
                                          IF Falsy(lastViewed) THEN "seeded" ELSE "diffed")
                                EXCEPT !.collected = collected, !.seen = lastViewed]]

\* After the members answer of the family at the head of todo: request the
\* next family, or (lines 109-136) build the key, read the stored one, and
\* either seed it and return 0 or count the pieces the stored key lacks.
MembersAdvance(i, collected) ==
    LET c == cycle[i]
        rest == Tail(c.todo)
        key == MembersKey(collected)
    IN  IF rest # <<>>
        THEN /\ cycle' = [cycle EXCEPT ![i].todo = rest, ![i].collected = collected,
                                       ![i].memBase = API_BASE]
             /\ UNCHANGED lastViewed
        ELSE IF Falsy(lastViewed)
        THEN /\ lastViewed' = <<key>>
             /\ cycle' = [cycle EXCEPT ![i] =
                            [MemberReturn(c, 0, "seeded") EXCEPT !.collected = collected,
                                                                !.seen = lastViewed]]
        ELSE /\ cycle' = [cycle EXCEPT ![i] =
                            [MemberReturn(c, CountNew(lastViewed[1], key), "diffed")
                                EXCEPT !.collected = collected, !.seen = lastViewed]]
             /\ UNCHANGED lastViewed

\* The members request answers ok: push its pairs.
MembersOk(i) ==
    /\ cycle[i].mem = "members"
    /\ cycle[i].memBase # NULL
    /\ MembersAdvance(i, cycle[i].collected \o MembersOf(membership, Head(cycle[i].todo)))
    /\ cycleFrame /\ UNCHANGED dom
    /\ UNCHANGED <<resolverVars, waiter, authVars, uiVars>>

\* The members answer is not ok: the family is skipped.
MembersBadStatus(i) ==
    /\ cycle[i].mem = "members"
    /\ MembersAdvance(i, cycle[i].collected)
    /\ cycleFrame /\ UNCHANGED dom
    /\ UNCHANGED <<resolverVars, waiter, authVars, uiVars>>

\* fetch throws inside the loop: catch, then `return 0`.
MembersNetworkError(i) ==
    /\ cycle[i].mem = "members"
    /\ cycle' = [cycle EXCEPT ![i] = MemberReturn(@, 0, "failed")]
    /\ cycleFrame /\ UNCHANGED <<lastViewed, dom>>
    /\ UNCHANGED <<resolverVars, waiter, authVars, uiVars>>

\* ---- updateAllNotifications after Promise.all: the three updateBadge calls.
RenderBadges(d, unreadMessages, newMembers) ==
    [d EXCEPT !["messageLink"] = UpdateBadge(@, unreadMessages),
              !["manageFamilyLink"] = UpdateBadge(@, newMembers),
              !["userProfileBtn"] = UpdateBadge(@, unreadMessages + newMembers)]

\* The cycles in flight once cycle i has rendered: the ones started before
\* it are marked.
Overtaken(seq, i) ==
    RemoveAt([j \in DOMAIN seq |->
                IF j < i THEN [seq[j] EXCEPT !.overtaken = TRUE] ELSE seq[j]], i)

Render(i) ==
    /\ cycle[i].msg = "done" /\ cycle[i].mem = "done"
    /\ dom' = IF headerPresent
              THEN RenderBadges(dom, cycle[i].unread, cycle[i].newMembers)
              ELSE dom
    /\ cycle' = Overtaken(cycle, i)
    /\ cycleFrame /\ UNCHANGED lastViewed
    /\ UNCHANGED <<resolverVars, waiter, authVars, uiVars>>

\* ---- clearNotification(type, userId)
IdleClear == [pc |-> "idle", base |-> NULL, todo |-> <<>>, collected |-> <<>>]

clearFrame == UNCHANGED <<notificationCheckInterval, timers, nextTimerId, badgeStyles,
                          membership, dom, headerPresent>>

\* Line 248: updateAllNotifications(userId), the re-check that ends every clear.
ClearRecheck(origin) ==
    /\ BeginCycle(origin)
    /\ clearProc' = IdleClear

\* Mutant: the mark-all-read request is not awaited, the re-check starts
\* along with it.
ClearNotificationCallNoAwait(type) ==
    /\ clearProc.pc = "idle"
    /\ IF type = "messages"
       THEN /\ BeginCycle("clearMessagesOk")
            /\ clearProc' = [IdleClear EXCEPT !.pc = "post", !.base = API_BASE]
       ELSE IF type = "family"
       THEN clearProc' = [IdleClear EXCEPT !.pc = "families", !.base = API_BASE] /\ UNCHANGED cycle
       ELSE ClearRecheck("check")
    /\ clearFrame /\ UNCHANGED <<srvUnread, lastViewed>>
    /\ UNCHANGED <<resolverVars, waiter, authVars, uiVars>>

\* NotificationSystem.clear(type, userId) up to its first await.
ClearNotificationCall(type) ==
    /\ clearProc.pc = "idle"
    /\ IF type = "messages"
       THEN clearProc' = [IdleClear EXCEPT !.pc = "post", !.base = API_BASE] /\ UNCHANGED cycle
       ELSE IF type = "family"
       THEN clearProc' = [IdleClear EXCEPT !.pc = "families", !.base = API_BASE] /\ UNCHANGED cycle
       ELSE ClearRecheck("check")
    /\ clearFrame /\ UNCHANGED <<srvUnread, lastViewed>>
    /\ UNCHANGED <<resolverVars, waiter, authVars, uiVars>>

\* POST read-all reached the backend and was answered ok.
ClearPostOk ==
    /\ clearProc.pc = "post" /\ clearProc.base # NULL
    /\ srvUnread' = 0
    /\ ClearRecheck("clearMessagesOk")
    /\ clearFrame /\ UNCHANGED lastViewed
    /\ UNCHANGED <<resolverVars, waiter, authVars, uiVars>>

\* POST read-all was answered with an error status: the response is not looked at.
ClearPostBadStatus ==
    /\ clearProc.pc = "post"
    /\ ClearRecheck("clearMessagesFailed")
    /\ clearFrame /\ UNCHANGED <<srvUnread, lastViewed>>
    /\ UNCHANGED <<resolverVars, waiter, authVars, uiVars>>

\* POST read-all threw: caught and logged.
ClearPostNetworkError ==
    /\ clearProc.pc = "post"
    /\ ClearRecheck("clearMessagesFailed")
    /\ clearFrame /\ UNCHANGED <<srvUnread, lastViewed>>
    /\ UNCHANGED <<resolverVars, waiter, authVars, uiVars>>

\* type 'family': the families request answers ok. With no family the loop
\* is empty and the key '' is stored at once.
ClearFamiliesOk ==
    /\ clearProc.pc = "families" /\ clearProc.base # NULL
    /\ \E families \in FamilyLists(membership) :
           IF families = <<>>
           THEN /\ lastViewed' = <<MembersKey(<<>>)>>
                /\ ClearRecheck("check")
           ELSE /\ clearProc' = [clearProc EXCEPT !.pc = "members", !.todo = families,
                                                  !.base = API_BASE]
                /\ UNCHANGED <<lastViewed, cycle>>
    /\ clearFrame /\ UNCHANGED srvUnread
    /\ UNCHANGED <<resolverVars, waiter, authVars, uiVars>>

\* type 'family': the families request is not ok, or throws: nothing is stored.
ClearFamiliesFailed ==
    /\ clearProc.pc = "families"
    /\ ClearRecheck("check")
    /\ clearFrame /\ UNCHANGED <<srvUnread, lastViewed>>
    /\ UNCHANGED <<resolverVars, waiter, authVars, uiVars>>

\* After a members answer: the next family, or setItem(key) and the re-check.
ClearMembersAdvance(collected) ==
    LET rest == Tail(clearProc.todo)
    IN  IF rest # <<>>
        THEN /\ clearProc' = [clearProc EXCEPT !.todo = rest, !.collected = collected,
                                               !.base = API_BASE]
             /\ UNCHANGED <<lastViewed, cycle>>
        ELSE /\ lastViewed' = <<MembersKey(collected)>>
             /\ ClearRecheck("check")

ClearMembersOk ==
    /\ clearProc.pc = "members" /\ clearProc.base # NULL
    /\ ClearMembersAdvance(clearProc.collected
                             \o MembersOf(membership, Head(clearProc.todo)))
    /\ clearFrame /\ UNCHANGED srvUnread
    /\ UNCHANGED <<resolverVars, waiter, authVars, uiVars>>

ClearMembersBadStatus ==
    /\ clearProc.pc = "members"
    /\ ClearMembersAdvance(clearProc.collected)
    /\ clearFrame /\ UNCHANGED srvUnread
    /\ UNCHANGED <<resolverVars, waiter, authVars, uiVars>>

\* A members request throws: caught, nothing is stored.
ClearMembersNetworkError ==
    /\ clearProc.pc = "members"
    /\ ClearRecheck("check")
    /\ clearFrame /\ UNCHANGED <<srvUnread, lastViewed>>
    /\ UNCHANGED <<resolverVars, waiter, authVars, uiVars>>

\* ---- the backend's own changes
backendFrame == UNCHANGED <<notificationCheckInterval, timers, nextTimerId, badgeStyles,
                            clearProc, lastViewed, dom, headerPresent>>

\* A message for the user arrives; cycles still waiting for their count may see it.
BackendNewMessage ==
    /\ srvUnread < MaxUnread
    /\ srvUnread' = srvUnread + 1
    /\ cycle' = [i \in Cycles |->
                   IF cycle[i].msg = "wait" THEN [cycle[i] EXCEPT !.stale = TRUE]
                   ELSE cycle[i]]
    /\ backendFrame /\ UNCHANGED membership
    /\ UNCHANGED <<resolverVars, waiter, authVars, uiVars>>

\* Somebody joins or leaves one of the families.
BackendJoin(p) ==
    /\ p \notin membership
    /\ membership' = membership \cup {p}
    /\ backendFrame /\ UNCHANGED <<srvUnread, cycle>>
    /\ UNCHANGED <<resolverVars, waiter, authVars, uiVars>>

BackendLeave(p) ==
    /\ p \in membership
    /\ membership' = membership \ {p}
    /\ backendFrame /\ UNCHANGED <<srvUnread, cycle>>
    /\ UNCHANGED <<resolverVars, waiter, authVars, uiVars>>

\* ========================================================= family code view
MaxCopies == 2

\* null where a string may stand: the answer of URLSearchParams.get and
\* localStorage.getItem for a missing key.
Absent == "<null>"

Triple(id, name, code) == [family_id |-> id, family_name |-> name, family_code |-> code]

\* useState(null) for family.
NoFamily == Triple(Absent, Absent, Absent)

\* The three reads are all truthy: neither null nor the empty string.
Complete(t) ==
    /\ t.family_id # Absent /\ t.family_id # ""
    /\ t.family_name # Absent /\ t.family_name # ""
    /\ t.family_code # Absent /\ t.family_code # ""

\* The component after its first render: useState initial values, the
\* effect not yet run; writes counts clipboard writes not yet settled, text
\* is what the last one was given, clearTimers counts the pending
\* setTimeout callbacks, copies the actions taken.
NewView(url, cache) ==
    [url |-> url, cache |-> cache, family |-> NoFamily, isLoading |-> TRUE, message |-> "",
     effectRan |-> FALSE, writes |-> 0, text |-> <<>>, clearTimers |-> 0, copies |-> 0]

viewFrame == UNCHANGED <<resolverVars, waiter, authVars, pollVars, header, localStore>>

\* Mutant: the cached triple is looked at first.
FamilyCodeEffectCacheFirst ==
    /\ ~view.effectRan
    /\ view' = [view EXCEPT
                  !.family = IF Complete(view.cache) THEN view.cache
                             ELSE IF Complete(view.url) THEN view.url ELSE @,
                  !.message = IF Complete(view.url) \/ Complete(view.cache)
                              THEN @ ELSE "No family information found. Please create or join a family first.",
                  !.isLoading = FALSE,
                  !.effectRan = TRUE]
    /\ viewFrame

\* The useEffect callback.
FamilyCodeEffect ==
    /\ ~view.effectRan
    /\ view' = [view EXCEPT
                  !.family = IF Complete(view.url)
                             THEN Triple(view.url.family_id, view.url.family_name,
                                         view.url.family_code)
                             ELSE IF Complete(view.cache)
                                  THEN Triple(view.cache.family_id, view.cache.family_name,
                                              view.cache.family_code)
                                  ELSE @,
                  !.message = IF Complete(view.url) \/ Complete(view.cache)
                              THEN @ ELSE "No family information found. Please create or join a family first.",
                  !.isLoading = FALSE,
                  !.effectRan = TRUE]
    /\ viewFrame

\* What the component renders.
Rendered == IF view.isLoading THEN "loading"
            ELSE IF view.family = NoFamily THEN "nofamily" ELSE "main"

\* copyToClipboard up to its await: the clipboard write is started.
CopyToClipboard(text) ==
    /\ view.copies < MaxCopies
    /\ view' = [view EXCEPT !.writes = @ + 1, !.text = text, !.copies = @ + 1]
    /\ viewFrame

\* The 'copy code' button of the main view.
CopyClick == Rendered = "main" /\ CopyToClipboard(<<view.family.family_code>>)

\* The 'share link' button: shareFamilyCode copies the built URL if family
\* is set.
ShareClick ==
    /\ Rendered = "main"
    /\ view.family # NoFamily
    /\ CopyToClipboard(<<"family_code.html", view.family.family_id,
                          view.family.family_name, view.family.family_code>>)

\* The clipboard write fulfils: message and a 3 s timer.
ClipboardOk ==
    /\ view.writes > 0
    /\ view' = [view EXCEPT !.writes = @ - 1, !.message = "Family code copied to clipboard!",
                            !.clearTimers = @ + 1]
    /\ viewFrame

\* The clipboard write rejects: the catch block sets the message.
ClipboardFailed ==
    /\ view.writes > 0
    /\ view' = [view EXCEPT !.writes = @ - 1, !.message = "Failed to copy to clipboard"]
    /\ viewFrame

\* A timer set by copyToClipboard fires: setMessage('').
MessageTimer ==
    /\ view.clearTimers > 0
    /\ view' = [view EXCEPT !.clearTimers = @ - 1, !.message = ""]
    /\ viewFrame

\* ============================================================== user header
\* The page markup user-header.js runs on: no layout container ("none"), a
\* container without child nodes ("empty"), a container whose first child
\* node is a text node ("text"), a container whose first child node is an
\* element ("content"), or a page whose own markup already holds the header
\* with #userProfileBtn, #userDropdown and #logoutBtn ("static").
Layouts == {"none", "empty", "text", "content", "static"}

\* localStorage keys of the header's session copy.
LocalKeys == {"currentUser", "userFamilies", "selectedFamily"}

\* The document as user-header.js sees it before any of its handlers ran.
\* buttons and styles count the #userProfileBtn and #user-header-styles
\* elements; toggles, outside and logouts count the click listeners on the
\* button, the document and the logout link; threw tells whether the last
\* addUserHeader call ended in a TypeError; invocations and last are history.
NewHeader(layout, dclDone) ==
    [layout |-> layout, buttons |-> IF layout = "static" THEN 1 ELSE 0,
     styles |-> 0, toggles |-> 0, outside |-> 0, logouts |-> 0, shown |-> FALSE,
     dclDone |-> dclDone, loadDone |-> FALSE, threw |-> FALSE,
     invocations |-> 0, last |-> "none"]

InitUi ==
    /\ header = NewHeader("static", FALSE)
    /\ localStore = LocalKeys
    /\ view = NewView(NoFamily, NoFamily)

\* Mutant: no look for an existing #userProfileBtn.
AddUserHeaderNoMarker(h) ==
    LET h1 == [h EXCEPT !.styles = IF @ = 0 THEN 1 ELSE @,
                        !.threw = (h.layout = "text")]
    IN  IF h.layout \in {"content", "static"} THEN [h1 EXCEPT !.buttons = @ + 1] ELSE h1

\* addUserHeader(): return if the marker exists; add the style element if
\* absent; look the container up; with a container, read firstChild.id:
\* no first child inserts nothing, a text node has no id and .includes
\* throws, an element (whose id never includes 'userProfileBtn') gets the
\* fragment inserted before it.
AddUserHeader(h) ==
    IF h.buttons > 0 THEN [h EXCEPT !.threw = FALSE]
    ELSE LET h1 == [h EXCEPT !.styles = IF @ = 0 THEN 1 ELSE @,
                             !.threw = (h.layout = "text")]
         IN  IF h.layout = "content" THEN [h1 EXCEPT !.buttons = @ + 1] ELSE h1

\* setupEventListeners(): one more listener on each element that exists.
SetupEventListeners(h) ==
    IF h.buttons > 0
    THEN [h EXCEPT !.toggles = @ + 1, !.outside = @ + 1, !.logouts = @ + 1]
    ELSE h

uiFrame == UNCHANGED <<resolverVars, waiter, sessionStorage, auth,
                       notificationCheckInterval, timers, nextTimerId, badgeStyles,
                       cycle, clearProc, srvUnread, membership, lastViewed, dom, view>>

\* The DOMContentLoaded or load listener: addUserHeader(); setupUserHeader().
\* An exception of addUserHeader ends the listener. setupUserHeader
\* redirects when localStorage holds no currentUser.
HeaderTrigger(ev) ==
    /\ href = "page"
    /\ ~header.loadDone
    /\ ev = "DOMContentLoaded" => ~header.dclDone
    /\ LET h1 == [AddUserHeader(header) EXCEPT
                    !.invocations = @ + 1, !.last = ev, !.dclDone = TRUE,
                    !.loadDone = (ev = "load")]
       IN  /\ IF h1.threw
              THEN header' = h1 /\ UNCHANGED href
              ELSE IF "currentUser" \in localStore
                   THEN header' = SetupEventListeners(h1) /\ UNCHANGED href
                   ELSE header' = h1 /\ href' = "index.html"
           /\ headerPresent' = (headerPresent \/ h1.buttons > 0)
    /\ uiFrame /\ UNCHANGED localStore

\* classList.toggle('show'), once per listener.
RECURSIVE ToggleTimes(_, _)
ToggleTimes(shown, n) == IF n = 0 THEN shown ELSE ToggleTimes(~shown, n - 1)

\* A click on the profile button: its listeners run, stopPropagation keeps
\* the event from the document.
ClickProfileButton ==
    /\ href = "page"
    /\ header.buttons > 0
    /\ header' = [header EXCEPT !.shown = ToggleTimes(@, header.toggles),
                                !.last = "button"]
    /\ uiFrame /\ UNCHANGED <<href, headerPresent, localStore>>

\* A click outside the button: every document listener removes 'show'.
ClickOutside ==
    /\ href = "page"
    /\ header' = [header EXCEPT !.shown = IF header.outside > 0 THEN FALSE ELSE @,
                                !.last = "outside"]
    /\ uiFrame /\ UNCHANGED <<href, headerPresent, localStore>>

\* A click on the logout link of the open dropdown: its listeners remove
\* the three localStorage keys and navigate; the event then reaches the
\* document.
ClickLogout ==
    /\ href = "page"
    /\ header.buttons > 0
    /\ header.shown
    /\ header' = [header EXCEPT !.shown = IF header.outside > 0 THEN FALSE ELSE @,
                                !.last = "logout"]
    /\ IF header.logouts > 0
       THEN /\ localStore' = localStore \ {"currentUser", "userFamilies", "selectedFamily"}
            /\ href' = "index.html"
       ELSE UNCHANGED <<localStore, href>>
    /\ uiFrame /\ UNCHANGED headerPresent

\* ============================================================ specifications
NextResolver ==
    \/ \E c \in pending : ProbeOk(c)
    \/ \E c \in pending : ProbeBadStatus(c)
    \/ \E c \in pending : ProbeNetworkError(c)
    \/ \E c \in pending : ProbeTimeout(c)
    \/ DetectApiBaseResume

NextWaiters ==
    \/ \E w \in Waiters : GetApiBaseCall(w)
    \/ \E w \in Waiters : GetApiBaseResume(w)

NextCycle ==
    \/ \E i \in Cycles : UnreadOk(i)
    \/ \E i \in Cycles : UnreadBadStatus(i)
    \/ \E i \in Cycles : UnreadNetworkError(i)
    \/ \E i \in Cycles : FamiliesOk(i)
    \/ \E i \in Cycles : FamiliesBadStatus(i)
    \/ \E i \in Cycles : FamiliesNetworkError(i)
    \/ \E i \in Cycles : MembersOk(i)
    \/ \E i \in Cycles : MembersBadStatus(i)
    \/ \E i \in Cycles : MembersNetworkError(i)
    \/ \E i \in Cycles : Render(i)

NextUpdate == \E u \in UserIds : UpdateAllNotificationsCall(u)

NextControl ==
    \/ \E u \in UserIds : StartNotificationCheck(u)
    \/ StopNotificationCheck
    \/ \E id \in timers : TimerTick(id)
    \/ NextUpdate

NextClear ==
    \/ \E type \in {"messages", "family", "other"} : ClearNotificationCall(type)
    \/ ClearPostOk
    \/ ClearPostBadStatus
    \/ ClearPostNetworkError
    \/ ClearFamiliesOk
    \/ ClearFamiliesFailed
    \/ ClearMembersOk
    \/ ClearMembersBadStatus
    \/ ClearMembersNetworkError

\* The members other than the polled user.
Others == { p \in AllPairs : p[2] # Self }

NextMembership ==
    \/ \E p \in Others : BackendJoin(p)
    \/ \E p \in Others : BackendLeave(p)

\* The page as loaded: nothing has run but the top level of the scripts.
InitPage == InitResolver /\ InitWaiters /\ InitAuthGuard /\ InitPoller /\ InitUi

\* A logged-in user with one unread message, alone in one family.
InitQuiet ==
    /\ sessionStorage = SessionKeys
    /\ srvUnread = 1
    /\ membership = {<<"F1", "U1">>}
    /\ headerPresent = TRUE

Init == InitPage /\ InitQuiet

\* The resolver and the page scripts that ask for the base.
Spec == Init /\ [][NextResolver \/ NextWaiters]_vars

\* The same, with the scheduling the browser guarantees: an armed timer
\* fires, and a continuation whose promise is settled runs.
Fairness ==
    /\ WF_vars(\E c \in pending : ProbeTimeout(c))
    /\ WF_vars(DetectApiBaseResume)
    /\ WF_vars(\E w \in Waiters : GetApiBaseResume(w))

\* A page served by the dev backend.
InitDevPage == InitPage /\ InitQuiet /\ location.host = "127.0.0.1"

LiveSpec == InitDevPage /\ [][NextResolver \/ NextWaiters]_vars /\ Fairness

\* setApiBase is a function declaration of a classic script, hence a global
\* any later script of the page can call: a call made after the resolver
\* has published.
SetApiBaseAgain(base) ==
    /\ detectPc = "done"
    /\ SetApiBase(base)
    /\ UNCHANGED <<location, pending, rejections, anyState, detectPc, via, firstOk>>
    /\ UNCHANGED <<waiter, authVars, pollVars, uiVars>>

\* The bases such a call passes: the first and the last candidate.
AgainBases(loc) == { Candidates(loc)[1], Candidates(loc)[Len(Candidates(loc))] }

NextSetAgain == \E base \in AgainBases(location) : SetApiBaseAgain(base)

\* The resolver, the page scripts that ask for the base, and a script that
\* publishes again.
InitSetAgain == InitDevPage

SpecSetAgain == InitSetAgain /\ [][NextResolver \/ NextWaiters \/ NextSetAgain]_vars

\* What a page load can find in session storage: nothing, the session
\* alone, or the session with its three companions.
InitSession ==
    /\ sessionStorage \in { {}, {"currentUser"}, SessionKeys }
    /\ srvUnread = 1
    /\ membership = {<<"F1", "U1">>}
    /\ headerPresent = TRUE

\* The resolver and the auth guard.
InitAuthPage == InitPage /\ InitSession

SpecAuth == InitAuthPage /\ [][NextResolver \/ NextAuth]_vars

\* The same page, whose scripts ask for a check cycle at any moment of the
\* resolution.
InitDependents == InitDevPage

SpecDependents == InitDependents /\ [][NextResolver \/ NextUpdate \/ NextCycle]_vars

\* A page whose resolver has finished: every probe has settled and the last
\* dev host won.
InitResolved ==
    /\ location = [protocol |-> "http:", host |-> "app.example", port |-> 80]
    /\ LET n == Len(Candidates(location))
           winner == Candidates(location)[n]
       IN  /\ API_BASE = winner
           /\ winApiBase = winner
           /\ anyState = <<"fulfilled", winner>>
           /\ rejections = n - 1
           /\ firstOk = winner
    /\ via = "winner"
    /\ apiReady = "resolved"
    /\ resolveApiReady = FALSE
    /\ pending = {}
    /\ detectPc = "done"

InitLoaded == InitResolved /\ InitWaiters /\ InitAuthGuard /\ InitPoller /\ InitUi

\* start, stop, the timer and update, with their check cycles.
InitTimer == InitLoaded /\ InitQuiet

SpecTimer == InitTimer /\ [][NextControl \/ NextCycle]_vars

\* Check cycles while other members join and leave the user's families.
InitFamilies ==
    /\ sessionStorage = SessionKeys
    /\ srvUnread = 0
    /\ membership \in { {}, {<<"F1", "U1">>}, {<<"F1", "U1">>, <<"F2", "U1">>} }
    /\ headerPresent = TRUE

InitMembers == InitLoaded /\ InitFamilies

SpecMembers == InitMembers /\ [][NextUpdate \/ NextCycle \/ NextMembership]_vars

\* Check cycles against any unread count, while a member joins and leaves.
InitCounts ==
    /\ sessionStorage = SessionKeys
    /\ srvUnread \in Range(UnreadValues)
    /\ membership = {<<"F1", "U1">>}
    /\ headerPresent \in BOOLEAN

NextOneMember ==
    \/ BackendJoin(<<"F1", "U2">>)
    \/ BackendLeave(<<"F1", "U2">>)

InitBadge == InitLoaded /\ InitCounts

SpecBadge == InitBadge /\ [][NextUpdate \/ NextCycle \/ NextOneMember]_vars

\* clearNotification and its re-check, while messages arrive.
InitClear == InitLoaded /\ InitQuiet

SpecClear == InitClear /\ [][NextClear \/ NextCycle \/ BackendNewMessage]_vars

\* clearNotification('messages') alone and its re-check, while messages arrive.
NextClearMessages ==
    \/ ClearNotificationCall("messages")
    \/ ClearPostOk
    \/ ClearPostBadStatus
    \/ ClearPostNetworkError

InitClearMessages == InitLoaded /\ InitQuiet

SpecClearMessages ==
    InitClearMessages /\ [][NextClearMessages \/ NextCycle \/ BackendNewMessage]_vars

\* clearNotification('family') on a page loaded with a stale snapshot: the
\* stored key names the user alone, and a second member has joined since.
\* Membership does not change.
InitClearFamily ==
    /\ InitResolved /\ InitWaiters /\ InitAuthGuard /\ InitUi
    /\ notificationCheckInterval = 0
    /\ timers = {}
    /\ nextTimerId = 1
    /\ badgeStyles = 0
    /\ cycle = <<>>
    /\ clearProc = IdleClear
    /\ lastViewed = << <<<<"F1", "U1">>>> >>
    /\ dom = [e \in Elements |-> NoBadge]
    /\ sessionStorage = SessionKeys
    /\ srvUnread = 0
    /\ membership = {<<"F1", "U1">>, <<"F1", "U2">>}
    /\ headerPresent = TRUE

NextClearFamily ==
    \/ ClearNotificationCall("family")
    \/ ClearFamiliesOk
    \/ ClearFamiliesFailed
    \/ ClearMembersOk
    \/ ClearMembersBadStatus
    \/ ClearMembersNetworkError

SpecClearFamily == InitClearFamily /\ [][NextClearFamily \/ NextUpdate \/ NextCycle]_vars

\* The header widget alone, on every page layout, with the script loaded
\* before or after DOMContentLoaded, and with or without a cached user.
NextHeader ==
    \/ \E ev \in {"DOMContentLoaded", "load"} : HeaderTrigger(ev)
    \/ ClickProfileButton
    \/ ClickOutside
    \/ ClickLogout

InitHeaderPage ==
    /\ InitResolved /\ InitWaiters /\ InitAuthGuard /\ InitPoller
    /\ sessionStorage = SessionKeys
    /\ srvUnread = 0
    /\ membership = {<<"F1", "U1">>}
    /\ \E l \in Layouts, d \in BOOLEAN :
           /\ header = NewHeader(l, d)
           /\ headerPresent = (l = "static")
    /\ localStore \in {LocalKeys, {"currentUser"}, {}}
    /\ view = NewView(NoFamily, NoFamily)

SpecHeader == InitHeaderPage /\ [][NextHeader]_vars

\* The FamilyCode component with every combination of URL parameters and
\* cached values. React runs the effect after the first render, a clipboard
\* write settles and a timer fires.
NextView ==
    \/ FamilyCodeEffect
    \/ CopyClick
    \/ ShareClick
    \/ ClipboardOk
    \/ ClipboardFailed
    \/ MessageTimer

InitView ==
    /\ InitResolved /\ InitWaiters /\ InitAuthGuard /\ InitPoller /\ InitQuiet
    /\ header = NewHeader("static", FALSE)
    /\ localStore = LocalKeys
    /\ \E u1, u2, u3 \in {Absent, "", "url"}, c1, c2, c3 \in {Absent, "", "cache"} :
           view = NewView(Triple(u1, u2, u3), Triple(c1, c2, c3))

SpecView ==
    /\ InitView /\ [][NextView]_vars
    /\ WF_vars(FamilyCodeEffect)
    /\ WF_vars(ClipboardOk \/ ClipboardFailed)
    /\ WF_vars(MessageTimer)

\* A page that runs the auth guard and the header widget: both stores hold
\* the session after login, API_BASE is resolved.
InitSessionPage ==
    /\ InitResolved /\ InitWaiters /\ InitAuthGuard /\ InitPoller
    /\ sessionStorage = SessionKeys
    /\ srvUnread = 0
    /\ membership = {<<"F1", "U1">>}
    /\ \E l \in Layouts, d \in BOOLEAN :
           /\ header = NewHeader(l, d)
           /\ headerPresent = (l = "static")
    /\ localStore = LocalKeys
    /\ view = NewView(NoFamily, NoFamily)

\* With API_BASE resolved no auth call suspends on API_READY.
NextSession ==
    \/ \E onS \in BOOLEAN, onE \in BOOLEAN : AuthCall("initAuth", onS, onE)
    \/ AuthCall("checkUserAuth", FALSE, FALSE)
    \/ CheckUserAuthFetch
    \/ LookupOk
    \/ LookupBadStatus
    \/ LookupNetworkError
    \/ AuthFinish
    \/ NextHeader

SpecSession == InitSessionPage /\ [][NextSession]_vars

\* Overlapping check cycles: updates on demand while earlier cycles are in
\* flight, and messages arriving meanwhile.
SpecOverlap ==
    InitTimer /\ [][(\E u \in UserIds : UpdateAllNotificationsUpTo(u, MaxOverlap))
                        \/ NextCycle \/ BackendNewMessage]_vars

\* ================================================================== claims
\* ---------------------------------------------------------------------- C1
\* Every probe has settled without one success.
AllProbesFailed == pending = {} /\ firstOk = NULL

\* C1, as stated: once the resolver has finished, the API base is the first
\* candidate whose probe succeeded, and it is the fallback origin
\* (127.0.0.1:8900 under the page's protocol) if and only if every candidate
\* failed or timed out.
C1_FallbackValueIffAllFail ==
    detectPc = "done" =>
        /\ firstOk # NULL => API_BASE = firstOk
        /\ API_BASE = Fallback(location) <=> AllProbesFailed

\* C1, amended: nothing is published before the resolver finishes; once it
\* has, the API base is the first candidate whose probe succeeded, the
\* fallback branch is taken if and only if every candidate failed or timed
\* out, and the published value equals the fallback origin if and only if
\* every candidate failed or the winner is the 127.0.0.1:8900 candidate
\* itself.
C1_FirstSuccessElseFallback ==
    /\ detectPc = "await" => API_BASE = NULL /\ via = "none"
    /\ detectPc = "done" =>
        /\ firstOk # NULL => API_BASE = firstOk /\ via = "winner"
        /\ via = "fallback" <=> AllProbesFailed
        /\ via = "fallback" => API_BASE = Fallback(location)
        /\ API_BASE = Fallback(location) <=>
               (AllProbesFailed \/ firstOk = Fallback(location))

\* C1 witness: a candidate other than the first one issued has won after an
\* earlier probe failed, and it is not the fallback origin.
C1_Witness ==
    /\ detectPc = "done"
    /\ via = "winner"
    /\ rejections > 0
    /\ API_BASE = firstOk
    /\ API_BASE # Candidates(location)[1]
    /\ API_BASE # Fallback(location)

\* ---------------------------------------------------------------------- C2
\* C2, as stated: no network request is issued by a dependent before the
\* API base is resolved, so every request in flight was built from a
\* resolved base.
C2_NoRequestBeforeResolution ==
    /\ \A i \in Cycles :
        /\ cycle[i].msg = "wait" => cycle[i].msgBase # NULL
        /\ cycle[i].mem \in {"families", "members"} => cycle[i].memBase # NULL
    /\ clearProc.pc # "idle" => clearProc.base # NULL

\* ---------------------------------------------------------------------- C3
\* C3: the resolution always completes (success or fallback), every
\* getApiBase() call waiting on it eventually returns, and what a call
\* returns is the one published base.
C3_WaitersReturnResolvedBase ==
    /\ <>(detectPc = "done")
    /\ \A w \in Waiters : (waiter[w].pc = "waiting") ~> (waiter[w].pc = "returned")
    /\ [](\A w \in Waiters :
            waiter[w].pc = "returned" =>
                /\ waiter[w].ret # NULL
                /\ waiter[w].ret = API_BASE
                /\ detectPc = "done")

\* C3 witness: every caller asked before the resolution, was suspended, and
\* has returned the published base.
C3_Witness ==
    \A w \in Waiters :
        /\ waiter[w].pc = "returned"
        /\ waiter[w].waited
        /\ waiter[w].ret = API_BASE
        /\ API_BASE # NULL

\* ---------------------------------------------------------------------- C4
\* C4, as stated: once the API base is published, a further call of the set
\* operation, with any value, leaves the published value as it is.
C4_PublishedValueNeverChanges ==
    [][API_BASE # NULL => API_BASE' = API_BASE /\ winApiBase' = winApiBase]_vars

\* ---------------------------------------------------------------------- C5
\* C5: when a cached session is present but the user lookup comes back
\* non-OK or the request throws, all four session keys are gone from
\* session storage and the check resolves to null; an initAuth that has
\* finished after it took the failure path: the error callback if one was
\* given, the redirect to the login page otherwise.
C5_FailedLookupClearsSession ==
    auth.why \in {"badstatus", "neterr"} =>
        /\ "currentUser" \in auth.found
        /\ sessionStorage \cap SessionKeys = {}
        /\ auth.result = "null"
        /\ auth.pc = "done" /\ auth.kind = "initAuth" =>
               /\ auth.outcome = IF auth.onError THEN "onError" ELSE "redirect"
               /\ auth.outcome = "redirect" => href = "index.html"

\* C5 witness: initAuth found all four keys, the lookup was answered with a
\* non-OK status, the keys are gone and the error callback has run.
C5_Witness ==
    /\ auth.kind = "initAuth"
    /\ auth.pc = "done"
    /\ auth.found = SessionKeys
    /\ auth.why = "badstatus"
    /\ auth.outcome = "onError"
    /\ sessionStorage = {}

\* ---------------------------------------------------------------------- C6
\* C6: whatever start and stop calls were made, at most one poll timer is
\* armed and the handle names exactly that timer; a start replaces the
\* armed timer by the new one.
C6_AtMostOneTimer ==
    /\ [](/\ Cardinality(timers) <= 1
          /\ notificationCheckInterval # 0 <=> timers # {}
          /\ notificationCheckInterval # 0 => timers = {notificationCheckInterval})
    /\ [][nextTimerId' # nextTimerId =>
              /\ timers' = {nextTimerId}
              /\ notificationCheckInterval' = nextTimerId]_vars

\* C6 witness: a second start has armed its timer, and it is the only one.
C6_Witness ==
    /\ nextTimerId = 3
    /\ notificationCheckInterval = 2
    /\ timers = {2}

\* ---------------------------------------------------------------------- C7
\* The member check of cycle i has reached the comparison with the stored
\* key (it did not return early on a failed or empty families answer).
Compared(i) == cycle[i].mem = "done" /\ cycle[i].how \in {"seeded", "diffed"}

\* C7, as stated: when a stored baseline key exists, the count a member
\* check returns is the number of collected (family, member) pairs that are
\* absent from the baseline; no current pair gives 0.
C7_CountIsPairsAbsentFromBaseline ==
    \A i \in Cycles :
        Compared(i) /\ cycle[i].seen # NoItem =>
            cycle[i].newMembers =
                Cardinality(Range(cycle[i].collected) \ Range(cycle[i].seen[1]))

\* ---------------------------------------------------------------------- C8
\* The step in which the member check of cycle i returns.
MemberCheckReturns(i) ==
    /\ Len(cycle') = Len(cycle)
    /\ cycle[i].mem # "done"
    /\ cycle'[i].mem = "done"

\* key is the canonical key of pairs: the same pairs, in ascending order.
IsCanonicalKeyOf(key, pairs) ==
    /\ Len(key) = Len(pairs)
    /\ Range(key) = Range(pairs)
    /\ \A j, k \in 1..Len(key) : j < k => PairLess(key[j], key[k])

\* C8, as stated: a member check that finds no stored baseline key stores
\* the canonical key of the current membership and returns 0.
C8_FirstCheckAlwaysSeeds ==
    [][\A i \in Cycles :
          MemberCheckReturns(i) /\ lastViewed = NoItem =>
              /\ cycle'[i].newMembers = 0
              /\ lastViewed' # NoItem
              /\ IsCanonicalKeyOf(lastViewed'[1], cycle'[i].collected)]_vars

\* C8, amended: a member check that finds no stored baseline key returns 0;
\* it stores a key only if the families request was answered ok with at
\* least one family and no members request threw, and the key is then the
\* canonical key of the pairs the ok members answers held; otherwise the
\* storage stays without a key. A later check diffs against the stored key
\* exactly when that key is not the empty string.
C8_FirstCheckSeedsWhatItFetched ==
    /\ [][\A i \in Cycles :
             MemberCheckReturns(i) /\ lastViewed = NoItem =>
                 /\ cycle'[i].newMembers = 0
                 /\ cycle'[i].how = "seeded" <=>
                        (cycle[i].mem = "members" /\ cycle'[i].how # "failed")
                 /\ IF cycle'[i].how = "seeded"
                    THEN /\ lastViewed' # NoItem
                         /\ IsCanonicalKeyOf(lastViewed'[1], cycle'[i].collected)
                    ELSE /\ lastViewed' = NoItem
                         /\ cycle'[i].how \in {"failed", "nofamilies"}]_vars
    /\ [](\A i \in Cycles :
             Compared(i) => (cycle[i].how = "diffed" <=> ~Falsy(cycle[i].seen)))

\* C8 witness: a check found no stored key, collected three pairs in an
\* order that is not the sorted one, stored their canonical key and
\* returned 0.
C8_Witness ==
    \E i \in Cycles :
        /\ Compared(i)
        /\ cycle[i].seen = NoItem
        /\ cycle[i].how = "seeded"
        /\ cycle[i].newMembers = 0
        /\ Len(cycle[i].collected) = 3
        /\ lastViewed # NoItem
        /\ lastViewed[1] # cycle[i].collected
        /\ IsCanonicalKeyOf(lastViewed[1], cycle[i].collected)

\* ---------------------------------------------------------------------- C9
\* The number a string of decimal digits denotes.
RECURSIVE ParseDecimal(_)
ParseDecimal(str) ==
    IF str = <<>> THEN 0
    ELSE 10 * ParseDecimal(SubSeq(str, 1, Len(str) - 1))
         + (Rank(DigitChars, str[Len(str)]) - 1)

IsDecimal(str) == str # <<>> /\ \A k \in 1..Len(str) : str[k] \in Range(DigitChars)

\* What a badge host shows for count n: nothing and no class for 0, else
\* one badge and the class, the badge reading n up to 99 and "99+" above.
Shows(el, n) ==
    IF n = 0
    THEN el.badges = <<>> /\ ~el.cls
    ELSE /\ Len(el.badges) = 1
         /\ el.cls
         /\ IF n > 99
            THEN el.badges[1] = <<"9", "9", "+">>
            ELSE IsDecimal(el.badges[1]) /\ ParseDecimal(el.badges[1]) = n

\* The step in which cycle i, both of its checks done, updates the badges.
Renders(i) ==
    /\ cycle[i].msg = "done"
    /\ cycle[i].mem = "done"
    /\ Len(cycle') = Len(cycle) - 1
    /\ cycle' = RemoveAt(cycle, i)

\* C9: when an update cycle completes, the messages link shows the unread
\* count, the manage-family link the new-member count and the profile
\* button their sum, each as no badge for 0, the exact number from 1 to 99
\* and "99+" above 99; without the header elements nothing is touched.
C9_BadgesShowCounts ==
    [][\A i \in Cycles :
          Renders(i) =>
              IF headerPresent
              THEN /\ Shows(dom'["messageLink"], cycle[i].unread)
                   /\ Shows(dom'["manageFamilyLink"], cycle[i].newMembers)
                   /\ Shows(dom'["userProfileBtn"],
                            cycle[i].unread + cycle[i].newMembers)
              ELSE dom' = dom]_vars

\* C9 witness: 99 unread messages and one new member are on display: "99",
\* "1", and "99+" for their sum of 100.
C9_Witness ==
    /\ dom["messageLink"] = [badges |-> << <<"9", "9">> >>, cls |-> TRUE]
    /\ dom["manageFamilyLink"] = [badges |-> << <<"1">> >>, cls |-> TRUE]
    /\ dom["userProfileBtn"] = [badges |-> << <<"9", "9", "+">> >>, cls |-> TRUE]

\* --------------------------------------------------------------------- C10
ClearMessagesOrigins == {"clearMessagesOk", "clearMessagesFailed"}

CurrentPairs == { p \in membership : p[1] \in FamilySet(membership) }

\* C11, as stated: once clearNotification('family') has overwritten the
\* stored snapshot with the key of the current membership, and membership
\* stays as it is, every check that reads that snapshot reports 0 new
\* members.
C11_NoNewMembersAfterFamilyClear ==
    /\ lastViewed # NoItem
    /\ Range(lastViewed[1]) = CurrentPairs
    => \A i \in Cycles :
           cycle[i].mem = "done" /\ cycle[i].seen = lastViewed =>
               cycle[i].newMembers = 0

\* The step is an invocation of addUserHeader (by either trigger).
Invocation == header'.invocations = header.invocations + 1

\* C12 (as stated): an invocation on a page without a matching layout
\* container changes nothing in the document.
C12_NoContainerIsNoOp ==
    [][Invocation /\ header.layout = "none" =>
           header'.buttons = header.buttons /\ header'.styles = header.styles]_vars

\* C12 (amended): after any number of invocations by either trigger the page
\* holds at most one #userProfileBtn and at most one header style element, a
\* second invocation changes neither, and an invocation on a page without a
\* matching container inserts no header but does leave the style element
\* in the document.
C12_OneHeaderOneStyle ==
    /\ [](header.buttons <= 1 /\ header.styles <= 1)
    /\ [][Invocation /\ header.invocations >= 1 =>
              header'.buttons = header.buttons /\ header'.styles = header.styles]_vars
    /\ [][Invocation /\ header.layout = "none" =>
              header'.buttons = 0 /\ header'.styles = 1 /\ ~header'.threw]_vars

\* Both triggers ran on a page with a content container: one header, one
\* style element.
C12_Witness ==
    /\ header.invocations = 2
    /\ header.layout = "content"
    /\ header.buttons = 1
    /\ header.styles = 1

\* C13: once setupEventListeners has run, by one trigger or by both, a click
\* on the profile button flips the dropdown between hidden and shown, and a
\* click outside the button leaves it hidden.
C13_ClickFlipsDropdown ==
    [][/\ header'.last = "button" /\ header.toggles > 0
           => header'.shown = ~header.shown
       /\ header'.last = "outside" /\ header.outside > 0
           => ~header'.shown]_vars

\* C14: after the logout link has been activated the page navigates to the
\* login page and none of the session keys the auth guard reads is present
\* in session storage.
C14_LogoutClearsSession ==
    header.last = "logout" /\ header.logouts > 0 =>
        /\ href = "index.html"
        /\ sessionStorage \cap SessionKeys = {}

\* Every field of the triple was answered with a non-empty value.
AllPresent(t) ==
    \A f \in {"family_id", "family_name", "family_code"} : t[f] \notin {Absent, ""}

\* C15: once the effect has run, the displayed family is the URL triple if
\* the URL holds all three fields, whatever the cache holds; else the cached
\* triple if the cache holds all three, with no field taken from the URL;
\* else the 'no family' view is rendered. The loading state always ends.
C15_SourcePriority ==
    /\ [](view.effectRan =>
            /\ AllPresent(view.url) =>
                   Rendered = "main" /\ view.family = view.url
            /\ ~AllPresent(view.url) /\ AllPresent(view.cache) =>
                   Rendered = "main" /\ view.family = view.cache
            /\ ~AllPresent(view.url) /\ ~AllPresent(view.cache) =>
                   Rendered = "nofamily")
    /\ <>(Rendered # "loading")

\* The URL and the cache both held a complete triple and the URL one is on
\* display.
C15_Witness ==
    /\ view.effectRan
    /\ AllPresent(view.url)
    /\ AllPresent(view.cache)
    /\ Rendered = "main"
    /\ view.family = view.url

\* C16: a status message of a copy or share action that is on display, with
\* no clipboard write outstanding, has a timer pending that will clear it.
C16_StatusMessageHasTimer ==
    view.message \in {"Family code copied to clipboard!", "Failed to copy to clipboard"} /\ view.writes = 0 =>
        view.clearTimers > 0

\* One step of the check cycle i: an answer to one of its requests, or the
\* rendering that ends it.
CycleStep(i) ==
    \/ UnreadOk(i) \/ UnreadBadStatus(i) \/ UnreadNetworkError(i)
    \/ FamiliesOk(i) \/ FamiliesBadStatus(i) \/ FamiliesNetworkError(i)
    \/ MembersOk(i) \/ MembersBadStatus(i) \/ MembersNetworkError(i)
    \/ Render(i)

\* C17: in a check cycle a failed unread-count request gives 0 unread
\* messages and a failed families request 0 new members, while the other
\* sub-check returns what it computed; a cycle can always take its next step
\* and ends only by rendering the badges from its two counts; no step of a
\* cycle touches the polling timer.
C17_FailedCheckDegradesToZero ==
    /\ [](\A i \in Cycles :
            /\ cycle[i].msgHow = "failed" => cycle[i].unread = 0
            /\ cycle[i].how = "failed" => cycle[i].newMembers = 0
            /\ cycle[i].msgHow = "ok" => cycle[i].unread = srvUnread
            /\ cycle[i].how = "seeded" =>
                   cycle[i].newMembers = 0 /\ lastViewed # NoItem
            /\ cycle[i].how = "diffed" =>
                   cycle[i].newMembers =
                       CountNew(cycle[i].seen[1], MembersKey(cycle[i].collected))
            /\ ENABLED CycleStep(i))
    /\ [][Len(cycle') < Len(cycle) =>
              \E i \in Cycles :
                  /\ cycle[i].msg = "done" /\ cycle[i].mem = "done"
                  /\ cycle' = Overtaken(cycle, i)
                  /\ dom' = IF headerPresent
                            THEN RenderBadges(dom, cycle[i].unread, cycle[i].newMembers)
                            ELSE dom]_vars
    /\ [][Len(cycle') <= Len(cycle) /\ cycle' # cycle =>
              UNCHANGED <<timers, notificationCheckInterval>>]_vars

\* The unread-count request of a cycle failed, its member check returned a
\* computed count, and the polling timer is armed.
C17_Witness ==
    /\ timers # {}
    /\ \E i \in Cycles :
           /\ cycle[i].msgHow = "failed"
           /\ cycle[i].mem = "done"
           /\ cycle[i].how \in {"seeded", "diffed"}

\* C18: start with a non-empty id begins one check cycle at once and leaves
\* exactly the new interval armed; stop cancels it and leaves the cycles in
\* flight as they are; while the poller is stopped no timer is armed, so no
\* timer starts a cycle; a cycle whose sub-checks are done can render,
\* stopped or not.
C18_StartStopStateMachine ==
    /\ [][nextTimerId' # nextTimerId =>
              /\ cycle' = Append(cycle, NewCycle("check"))
              /\ notificationCheckInterval' # 0
              /\ timers' = (timers \ {notificationCheckInterval})
                               \cup {notificationCheckInterval'}]_vars
    /\ [][notificationCheckInterval # 0 /\ notificationCheckInterval' = 0 =>
              timers' = {} /\ cycle' = cycle]_vars
    /\ [](notificationCheckInterval = 0 =>
              timers = {} /\ ~ENABLED (\E id \in 1..MaxTimers : TimerTick(id)))
    /\ [](notificationCheckInterval # 0 => timers = {notificationCheckInterval})
    /\ [](\A i \in Cycles :
              cycle[i].msg = "done" /\ cycle[i].mem = "done" => ENABLED Render(i))

\* The poller was started and stopped, and the cycle that was in flight has
\* both counts and is about to render.
C18_Witness ==
    /\ nextTimerId > 1
    /\ notificationCheckInterval = 0
    /\ \E i \in Cycles : cycle[i].msg = "done" /\ cycle[i].mem = "done"

\* C19: whenever the auth guard is about to send or has sent its GET
\* /user/{id} lookup, setApiBase has run (API_BASE is set and API_READY is
\* resolved) and the base the URL is built from is the resolved API_BASE.
C19_LookupAfterResolution ==
    auth.pc \in {"getBase", "lookup"} =>
        /\ API_BASE # NULL
        /\ apiReady = "resolved"
        /\ auth.base = API_BASE

\* A checkUserAuth call made before the resolver had settled has waited and
\* now has its lookup in flight.
C19_Witness ==
    /\ auth.pc = "lookup"
    /\ auth.kind = "checkUserAuth"
    /\ auth.waited
    /\ auth.base = API_BASE

\* C20 (as stated): an initAuth call that has ended took one of the three
\* outcomes: onSuccess(user), onError(), or the redirect to the login page.
C20_AlwaysAnOutcome ==
    auth.kind = "initAuth" /\ auth.pc = "done" =>
        auth.outcome \in {"onSuccess", "onError", "redirect"}

\* C20 (amended): an initAuth call that has ended took at most one outcome
\* and takes no other afterwards: with the cached session confirmed by the
\* lookup, onSuccess(user) if a success callback was given and nothing at
\* all if none was; else onError(), without a redirect, if an error handler
\* was given; else the redirect to the login page. A call that found no
\* cached session sent no lookup request.
C20_ExactlyOneOutcome ==
    /\ [](auth.kind = "initAuth" =>
            /\ auth.outcome # "none" <=> auth.pc = "done"
            /\ auth.pc = "return" => ENABLED AuthFinish
            /\ auth.pc = "done" =>
                   /\ auth.result = "user" /\ auth.onSuccess
                          <=> auth.outcome = "onSuccess"
                   /\ auth.result = "user" /\ ~auth.onSuccess
                          <=> auth.outcome = "nothing"
                   /\ auth.result # "user" /\ auth.onError
                          <=> auth.outcome = "onError"
                   /\ auth.result # "user" /\ ~auth.onError
                          <=> auth.outcome = "redirect"
                   /\ auth.outcome = "redirect" <=> href = "index.html"
                   /\ auth.result = "user" <=> auth.why = "ok"
            /\ auth.why = "nosession" =>
                   auth.base = NULL /\ "currentUser" \notin auth.found)
    /\ [][auth.pc = "done" => auth' = auth /\ href' = href]_vars

\* An initAuth call with an error handler found no cached session: onError
\* was called and the page did not navigate.
C20_Witness ==
    /\ auth.kind = "initAuth"
    /\ auth.pc = "done"
    /\ auth.why = "nosession"
    /\ auth.outcome = "onError"
    /\ href = "page"

\* C21: when the lookup answers with a success status, checkUserAuth returns
\* the object parsed from the cached session, and the session keys are the
\* ones it found when it read the cache: the step writes none of them.
C21_SuccessReturnsCachedSession ==
    /\ [][auth.pc = "lookup" /\ auth'.why = "ok" =>
              /\ auth'.result = "user"
              /\ sessionStorage' = sessionStorage]_vars
    /\ [](auth.why = "ok" =>
              /\ auth.result = "user"
              /\ sessionStorage = auth.found
              /\ getTabKey("currentUser") \in sessionStorage)

\* A checkUserAuth call has returned the cached user after a successful
\* lookup, with the four session keys in place.
C21_Witness ==
    /\ auth.kind = "checkUserAuth"
    /\ auth.pc = "done"
    /\ auth.why = "ok"
    /\ auth.result = "user"
    /\ sessionStorage = SessionKeys

\* C22: a run of setupUserHeader on the current page redirects to the login
\* page if and only if session storage, which the auth guard reads, holds no
\* currentUser.
C22_HeaderAgreesWithAuthGuard ==
    [][Invocation /\ ~header'.threw /\ href = "page" =>
           (href' = "index.html" <=> getTabKey("currentUser") \notin sessionStorage)]_vars

\* C23 (as stated): while a non-empty baseline is stored and membership does
\* not change, every check cycle reports the same new-member count, the
\* number of current pairs the baseline lacks.
C23_SameCountEveryCycle ==
    \A i \in Cycles :
        /\ cycle[i].mem = "done"
        /\ ~Falsy(lastViewed)
        /\ cycle[i].how = "failed" \/ cycle[i].seen = lastViewed
        => cycle[i].newMembers = Cardinality(CurrentPairs \ Range(lastViewed[1]))

\* C23 (amended): the stored snapshot is written only by a check that found
\* no (or an empty) stored key and by clearNotification('family'); a check
\* that found a non-empty key leaves it as it is. With unchanged membership
\* every cycle whose families and members requests were all answered ok
\* reports the number of current pairs the key it read lacks, and a cycle
\* with a failed families request or a thrown members request reports 0.
C23_BaselineWrittenBySeedAndClearOnly ==
    /\ [][lastViewed' # lastViewed =>
              Falsy(lastViewed) \/ clearProc.pc = "members"]_vars
    /\ [](\A i \in Cycles :
              /\ cycle[i].how = "diffed" /\ Range(cycle[i].collected) = CurrentPairs =>
                     cycle[i].newMembers =
                         Cardinality(CurrentPairs \ Range(cycle[i].seen[1]))
              /\ cycle[i].how = "failed" => cycle[i].newMembers = 0)

\* A cycle has read the stored key, which lacks a current member, reported
\* one new member and left the key as it was.
C23_Witness ==
    \E i \in Cycles :
        /\ cycle[i].how = "diffed"
        /\ Range(cycle[i].collected) = CurrentPairs
        /\ cycle[i].newMembers = 1
        /\ cycle[i].seen = lastViewed

\* C24: a check cycle that renders after a cycle started later has rendered
\* does not change what the badges show.
C24_EarlierCycleNeverOverwrites ==
    [][\A i \in Cycles :
           /\ cycle[i].overtaken
           /\ cycle[i].msg = "done" /\ cycle[i].mem = "done"
           /\ cycle' = Overtaken(cycle, i)
           => dom' = dom]_vars

====
